---- MODULE Spec2Model ----
(***************************************************************************)
(* Model of the romania-rss-feed front-end: the main page script           *)
(* (src/assets/app.js) and the statistics page script                      *)
(* (src/unnamed/part_000).                                                 *)
(*                                                                         *)
(* JavaScript strings are modelled as sequences of one-character strings   *)
(* (<<"a","n","a">> is "ana"); an absent or empty field is <<>>, which is  *)
(* falsy in the code's `x || default` idiom exactly like undefined and ''. *)
(* An optional number is <<>> (absent) or <<n>>.                           *)
(*                                                                         *)
(* Every handler runs to completion on the event loop, so one action is    *)
(* one handler, or the part of an async function between two awaits.       *)
(* The page elements the scripts look up by id are taken to exist.         *)
(* Profile texts are drawn from strings without the double quote, so the   *)
(* unescaped interpolation into the img attributes (app.js:193) cannot     *)
(* leave its attribute; the pool's profiles carry no avatar.               *)
(***************************************************************************)
EXTENDS Integers, Sequences, FiniteSets, TLC

\* ------------------------------------------------------------------ bounds

\* Longest profile list the main page is given.
MaxProfiles == 3

\* Longest profile list the statistics page is given (one above the top-list
\* size, so that the slice really cuts).
MaxStatsProfiles == 11

\* -------------------------------------------------------- program constants

\* slice(0, 10) of the top lists.
TopN == 10

\* animateValue(id, 0, target, 1000)
Duration == 1000

\* setInterval(..., 16) and duration / 16
TickMs == 16

\* daysSince <= 30
ActiveDays == 30

\* ----------------------------------------------------------------- strings

LowerChars ==
  <<"a","b","c","d","e","f","g","h","i","j","k","l","m",
    "n","o","p","q","r","s","t","u","v","w","x","y","z">>

UpperChars ==
  <<"A","B","C","D","E","F","G","H","I","J","K","L","M",
    "N","O","P","Q","R","S","T","U","V","W","X","Y","Z">>

IsUpper(c) == \E i \in 1..Len(UpperChars) : UpperChars[i] = c

IsLower(c) == \E i \in 1..Len(LowerChars) : LowerChars[i] = c

IsLetter(c) == IsUpper(c) \/ IsLower(c)

\* Position of a letter in the alphabet, whatever its case.
LetterIndex(c) ==
  CHOOSE i \in 1..Len(LowerChars) : LowerChars[i] = c \/ UpperChars[i] = c

toLowerCaseChar(c) == IF IsUpper(c) THEN LowerChars[LetterIndex(c)] ELSE c

toUpperCaseChar(c) == IF IsLower(c) THEN UpperChars[LetterIndex(c)] ELSE c

toLowerCase(s) == [i \in 1..Len(s) |-> toLowerCaseChar(s[i])]

toUpperCase(s) == [i \in 1..Len(s) |-> toUpperCaseChar(s[i])]

IsSpace(c) == c = " "

RECURSIVE trimStart(_)
trimStart(s) ==
  IF s # <<>> /\ IsSpace(Head(s)) THEN trimStart(Tail(s)) ELSE s

RECURSIVE trimEnd(_)
trimEnd(s) ==
  IF s # <<>> /\ IsSpace(s[Len(s)]) THEN trimEnd(SubSeq(s, 1, Len(s) - 1)) ELSE s

trim(s) == trimEnd(trimStart(s))

\* String.prototype.includes
includes(s, sub) ==
  \E i \in 0..(Len(s) - Len(sub)) : SubSeq(s, i + 1, i + Len(sub)) = sub

\* x || y on strings: '' and undefined are both falsy.
OrElse(x, y) == IF x # <<>> THEN x ELSE y

\* x || 0 on an optional count.
OrZero(x) == IF x # <<>> THEN x[1] ELSE 0

RECURSIVE Concat(_)
Concat(ss) == IF ss = <<>> THEN <<>> ELSE Head(ss) \o Concat(Tail(ss))

\* escapeHtml: the text serialised as the innerHTML of a text node.
escapeHtmlChar(c) ==
  CASE c = "&" -> <<"&","a","m","p",";">>
    [] c = "<" -> <<"&","l","t",";">>
    [] c = ">" -> <<"&","g","t",";">>
    [] OTHER   -> <<c>>

escapeHtml(text) == Concat([i \in 1..Len(text) |-> escapeHtmlChar(text[i])])

\* stripHtml: the markup parsed as innerHTML, then read back as textContent.
\* A "<" opens a tag when a letter or "/" follows it, and the tag runs to
\* the next ">" (to the end of the input when there is none); every other
\* character is text.
RECURSIVE stripHtmlFrom(_, _)
stripHtmlFrom(html, inTag) ==
  IF html = <<>> THEN <<>>
  ELSE LET c    == Head(html)
           rest == Tail(html)
       IN IF inTag
          THEN stripHtmlFrom(rest, c # ">")
          ELSE IF c = "<" /\ rest # <<>> /\ (IsLetter(Head(rest)) \/ Head(rest) = "/")
               THEN stripHtmlFrom(rest, TRUE)
               ELSE <<c>> \o stripHtmlFrom(rest, FALSE)

stripHtml(html) == stripHtmlFrom(html, FALSE)

\* Decimal digits of a non-negative integer, as characters.
DigitChars == <<"0","1","2","3","4","5","6","7","8","9">>

RECURSIVE toStringNat(_)
toStringNat(n) ==
  IF n < 10 THEN <<DigitChars[n + 1]>>
  ELSE toStringNat(n \div 10) \o <<DigitChars[(n % 10) + 1]>>

\* formatNumber: a comma before every group of three digits that is followed
\* by no further digit and is not at the start of the number (\B).
formatNumber(num) ==
  LET s == toStringNat(num)
      n == Len(s)
  IN Concat([i \in 1..n |->
       IF i > 1 /\ (n - i + 1) % 3 = 0 THEN <<",", s[i]>> ELSE <<s[i]>>])

\* encodeURIComponent: letters, digits and - _ . ! ~ * ' ( ) stay, any other
\* character becomes its %XX escape.
encodeURIComponentChar(c) ==
  CASE c = "<" -> <<"%","3","C">>
    [] c = ">" -> <<"%","3","E">>
    [] c = " " -> <<"%","2","0">>
    [] c = "/" -> <<"%","2","F">>
    [] c = "&" -> <<"%","2","6">>
    [] c = "@" -> <<"%","4","0">>
    [] OTHER   -> <<c>>

encodeURIComponent(s) ==
  Concat([i \in 1..Len(s) |-> encodeURIComponentChar(s[i])])

\* String.prototype.localeCompare: letters compare by alphabet position
\* first; other characters sort before letters; when no position decides,
\* the first difference in case does, lower case first.
CollationRank(c) == IF IsLetter(c) THEN LetterIndex(c) ELSE 0

RECURSIVE PrimaryCompare(_, _)
PrimaryCompare(s, t) ==
  IF s = <<>> /\ t = <<>> THEN 0
  ELSE IF s = <<>> THEN -1
  ELSE IF t = <<>> THEN 1
  ELSE IF CollationRank(Head(s)) < CollationRank(Head(t)) THEN -1
  ELSE IF CollationRank(Head(s)) > CollationRank(Head(t)) THEN 1
  ELSE PrimaryCompare(Tail(s), Tail(t))

RECURSIVE CaseCompare(_, _)
CaseCompare(s, t) ==
  IF s = <<>> \/ t = <<>> THEN 0
  ELSE IF Head(s) = Head(t) THEN CaseCompare(Tail(s), Tail(t))
  ELSE IF IsLower(Head(s)) /\ IsUpper(Head(t)) THEN -1
  ELSE IF IsUpper(Head(s)) /\ IsLower(Head(t)) THEN 1
  ELSE CaseCompare(Tail(s), Tail(t))

localeCompare(s, t) ==
  IF PrimaryCompare(s, t) # 0 THEN PrimaryCompare(s, t) ELSE CaseCompare(s, t)

\* ------------------------------------------------------------- data model

\* Profile records as /data/profiles.json carries them. created_at and
\* last_status_at stand for the instants their ISO strings denote, in days.
Ana ==
  [username        |-> <<"a","n","a">>,
   display_name    |-> <<"A","n","a">>,
   note            |-> <<"<","p",">","B","i","o","<","/","p",">">>,
   statuses_count  |-> <<150>>,
   followers_count |-> <<10>>,
   created_at      |-> <<2>>,
   last_status_at  |-> <<11>>]

Bob ==
  [username        |-> <<"b","o","b">>,
   display_name    |-> <<>>,
   note            |-> <<>>,
   statuses_count  |-> <<5>>,
   followers_count |-> <<>>,
   created_at      |-> <<>>,
   last_status_at  |-> <<>>]

Pia ==
  [username        |-> <<"p","&","a">>,
   display_name    |-> <<"P","i","a">>,
   note            |-> <<"a","<","b",">","n","<","/","b",">","a"," ","<"," ","b">>,
   statuses_count  |-> <<>>,
   followers_count |-> <<10>>,
   created_at      |-> <<1>>,
   last_status_at  |-> <<10>>]

ProfilePool == {Ana, Bob, Pia}

\* The statistics page is given longer lists of fewer kinds of profile.
StatsPool == {Bob, Pia}

SeqsUpTo(S, n) == UNION {[1..k -> S] : k \in 0..n}

\* The arrays /data/profiles.json can hold on the main page.
ProfileLists == SeqsUpTo(ProfilePool, MaxProfiles)

\* The arrays /data/profiles.json can hold on the statistics page.
StatsProfileLists == SeqsUpTo(StatsPool, MaxStatsProfiles)

\* Date.now(), in days.
Nows == {41}

\* Values typed into the search box.
Queries ==
  {<<>>, <<" ">>, <<"p">>, <<"A","N"," ">>, <<"a","n","a">>,
   <<"b","i","o">>, <<"z","z">>}

\* Options of the sort control.
SortKeys == {"name", "posts", "followers", "recent"}

ProfilesUrl == "/data/profiles.json"

ServerStatsUrl == "/data/server-stats.json"

LoadErrorMsg ==
  "Nu s-au putut incarca profilurile. Te rugam sa reimprospatezi pagina."

NoResultsMsg ==
  "Nu s-au gasit profiluri care sa corespunda criteriilor de cautare."

ServerStatsUnavailableMsg ==
  "Statisticile serverului nu sunt disponibile momentan."

DefaultInstance == <<"social.5th.ro">>

NoName == <<"Fara nume">>

NoDescription == <<"Fara descriere">>

\* ------------------------------------------------------------------- state

VARIABLES
  page,              \* which page's script runs: "main", "stats" or "counter"
  pc,                \* where the DOMContentLoaded handler stands
  inflight,          \* URLs of the fetches not yet settled
  console,           \* console.error lines
  heap,              \* the array objects: reference -> contents
  profilesData,      \* let profilesData: a reference into heap
  filteredProfiles,  \* let filteredProfiles: a reference into heap
  listeners,         \* listeners attached by setupSearch
  searchValue,       \* searchInput.value
  sortValue,         \* sortSelect.value
  resultsCount,      \* textContent of #resultsCount
  grid,              \* #profilesGrid: its message and its .profile-card elements
  location,          \* window.location.href once a card was clicked
  clicked,           \* history: the card element that was clicked
  counters,          \* the counter animations updateStats started: id and end
  lastEvent,         \* history: the handler that ran last
  sortedOnce,        \* history: handleSort has run
  topPosts,          \* #topPosts
  topFollowers,      \* #topFollowers
  serverStats,       \* #serverStats
  timer,             \* one animateValue closure: id, end, current, running
  counterText        \* textContent of that counter's element

vars ==
  <<page, pc, inflight, console, heap, profilesData, filteredProfiles,
    listeners, searchValue, sortValue, resultsCount, grid, location, clicked,
    counters, lastEvent, sortedOnce, topPosts, topFollowers, serverStats, timer,
    counterText>>

mainVars ==
  <<listeners, searchValue, sortValue, resultsCount, grid, location, clicked>>

statsVars == <<topPosts, topFollowers, serverStats>>

timerVars == <<timer, counterText>>

\* The array a reference points to.
PD == heap[profilesData]

FP == heap[filteredProfiles]

\* The reference a newly created array gets: one that profilesData does not hold.
NewArray == IF profilesData = "r2" THEN "r1" ELSE "r2"

NoTimer ==
  [id |-> "", end |-> 0, duration |-> 0, increment |-> 0, current |-> 0,
   running |-> FALSE, fired |-> 0]

InitCommon ==
  /\ pc = "start"
  /\ inflight = {}
  /\ console = <<>>
  /\ heap = [r \in {"r1", "r2"} |-> <<>>]
  /\ profilesData = "r1"
  /\ filteredProfiles = "r2"
  /\ listeners = {}
  /\ searchValue = <<>>
  /\ resultsCount = <<>>
  /\ grid = [message |-> "", cards |-> <<>>]
  /\ location = <<>>
  /\ clicked = <<>>
  /\ counters = {}
  /\ lastEvent = "none"
  /\ sortedOnce = FALSE
  /\ topPosts = <<>>
  /\ topFollowers = <<>>
  /\ serverStats = [message |-> "", stats |-> <<>>]
  /\ timer = NoTimer
  /\ counterText = <<>>

\* --------------------------------------------------- sorting and counters

Sum(s) ==
  LET f[i \in 0..Len(s)] == IF i = 0 THEN 0 ELSE f[i - 1] + s[i]
  IN f[Len(s)]

\* The comparator with its operands swapped: ascending where the code
\* sorts descending.
compare_Ascending(sortBy, a, b) ==
  CASE sortBy = "name" ->
         localeCompare(OrElse(a.display_name, a.username),
                       OrElse(b.display_name, b.username))
    [] sortBy = "posts" ->
         OrZero(a.statuses_count) - OrZero(b.statuses_count)
    [] sortBy = "followers" ->
         OrZero(a.followers_count) - OrZero(b.followers_count)
    [] sortBy = "recent" ->
         OrZero(a.created_at) - OrZero(b.created_at)
    [] OTHER -> 0

\* The comparator of handleSort.
compare(sortBy, a, b) ==
  CASE sortBy = "name" ->
         localeCompare(OrElse(a.display_name, a.username),
                       OrElse(b.display_name, b.username))
    [] sortBy = "posts" ->
         OrZero(b.statuses_count) - OrZero(a.statuses_count)
    [] sortBy = "followers" ->
         OrZero(b.followers_count) - OrZero(a.followers_count)
    [] sortBy = "recent" ->
         OrZero(b.created_at) - OrZero(a.created_at)
    [] OTHER -> 0

\* The comparators of renderTopProfiles.
compareTop(by, a, b) ==
  IF by = "topPosts"
  THEN OrZero(b.statuses_count) - OrZero(a.statuses_count)
  ELSE OrZero(b.followers_count) - OrZero(a.followers_count)

\* The comparator function a sort call is given.
comparator(cmp, a, b) ==
  IF cmp \in {"topPosts", "topFollowers"}
  THEN compareTop(cmp, a, b)
  ELSE compare(cmp, a, b)

\* Array.prototype.sort with a consistent comparator: a stable sort.
RECURSIVE InsertSorted(_, _, _)
InsertSorted(cmp, x, s) ==
  IF s = <<>> THEN <<x>>
  ELSE IF comparator(cmp, Head(s), x) <= 0
       THEN <<Head(s)>> \o InsertSorted(cmp, x, Tail(s))
       ELSE <<x>> \o s

RECURSIVE sort(_, _)
sort(arr, cmp) ==
  IF arr = <<>> THEN <<>>
  ELSE InsertSorted(cmp, arr[Len(arr)], sort(SubSeq(arr, 1, Len(arr) - 1), cmp))

\* A slice that does not cut.
slice_NoCut(arr, start, end) == arr

\* Array.prototype.slice(start, end), indices from 0, end excluded.
slice(arr, start, end) ==
  SubSeq(arr, start + 1, IF end < Len(arr) THEN end ELSE Len(arr))

\* updateStats / updateOverviewStats: the ends of the four counters started.
isActive(p, now) ==
  p.last_status_at # <<>> /\ now - p.last_status_at[1] <= ActiveDays

updateStats(data, now) ==
  { [id |-> "totalProfiles", end |-> Len(data)],
    [id |-> "totalPosts",
     end |-> Sum([i \in 1..Len(data) |-> OrZero(data[i].statuses_count)])],
    [id |-> "totalFollowers",
     end |-> Sum([i \in 1..Len(data) |-> OrZero(data[i].followers_count)])],
    [id |-> "activeProfiles",
     end |-> Len(SelectSeq(data, LAMBDA p : isActive(p, now)))] }

\* ------------------------------------------------------- main page: pure

\* createProfileCard: what the .profile-card element shows.
createProfileCard(profile) ==
  LET displayName == OrElse(profile.display_name, OrElse(profile.username, NoName))
      username    == profile.username
      description == OrElse(profile.note, NoDescription)
      posts       == OrZero(profile.statuses_count)
      followers   == OrZero(profile.followers_count)
  IN [avatar      |-> toUpperCase(<<Head(displayName)>>),
      name        |-> escapeHtml(displayName),
      acct        |-> <<"@">> \o escapeHtml(username \o <<"@">> \o DefaultInstance),
      description |-> escapeHtml(stripHtml(description)),
      posts       |-> formatNumber(posts),
      followers   |-> formatNumber(followers)]

\* showError: the grid holds the message and nothing else.
showError(g, message) == [message |-> message, cards |-> <<>>]

\* A render without the empty-list branch: an empty grid.
renderProfiles_NoPlaceholder(g, profiles) ==
  [message |-> "",
   cards   |-> [i \in 1..Len(profiles) |-> createProfileCard(profiles[i])]]

\* renderProfiles: the placeholder for an empty list, else one card per profile.
renderProfiles(g, profiles) ==
  IF Len(profiles) = 0
  THEN [message |-> NoResultsMsg, cards |-> <<>>]
  ELSE [message |-> "",
        cards   |-> [i \in 1..Len(profiles) |-> createProfileCard(profiles[i])]]

\* The predicate handleSearch filters profilesData with.
matchesQuery(profile, query) ==
  LET name        == toLowerCase(OrElse(profile.display_name, profile.username))
      username    == toLowerCase(profile.username)
      description == toLowerCase(profile.note)
      searchTerm  == toLowerCase(query)
  IN \/ includes(name, searchTerm)
     \/ includes(username, searchTerm)
     \/ includes(description, searchTerm)

\* A search that narrows the list on display instead of the loaded one.
searchResult_FromFiltered(data, value) ==
  LET query == trim(toLowerCase(value))
  IN IF query = <<>>
     THEN FP
     ELSE SelectSeq(FP, LAMBDA profile : matchesQuery(profile, query))

\* The list handleSearch computes from profilesData for the input's value.
searchResult(data, value) ==
  LET query == trim(toLowerCase(value))
  IN IF query = <<>>
     THEN data
     ELSE SelectSeq(data, LAMBDA profile : matchesQuery(profile, query))

\* The address a card's click handler navigates to.
profileHref(profile) ==
  <<"/profiles/">> \o encodeURIComponent(profile.username) \o <<"/">>

\* ---------------------------------------------------- main page: actions

\* The DOMContentLoaded handler up to its first await: loadProfiles issues
\* the fetch.
MainDOMContentLoaded ==
  /\ page = "main"
  /\ pc = "start"
  /\ pc' = "awaitFetch"
  /\ inflight' = {ProfilesUrl}
  /\ UNCHANGED <<page, console, heap, profilesData, filteredProfiles, counters,
                 lastEvent, sortedOnce>>
  /\ UNCHANGED <<mainVars, statsVars, timerVars>>

\* The fetch resolves with an ok response: loadProfiles awaits response.json().
MainFetchOk ==
  /\ page = "main"
  /\ pc = "awaitFetch"
  /\ pc' = "awaitJson"
  /\ UNCHANGED <<page, inflight, console, heap, profilesData, filteredProfiles,
                 counters, lastEvent, sortedOnce>>
  /\ UNCHANGED <<mainVars, statsVars, timerVars>>

\* What the handler does after `await loadProfiles()`: setupSearch,
\* updateStats, renderProfiles, on the grid as loadProfiles left it.
MainAfterLoad(g, data, shown, now) ==
  /\ listeners' = {"input", "change"}
  /\ counters' = updateStats(data, now)
  /\ grid' = renderProfiles(g, shown)
  /\ pc' = "ready"
  /\ inflight' = {}
  /\ lastEvent' = "load"
  /\ UNCHANGED <<page, searchValue, sortValue, resultsCount, location, clicked,
                 sortedOnce>>
  /\ UNCHANGED <<statsVars, timerVars>>

\* loadProfiles' catch: the fetch rejected, the response was not ok, or its
\* body did not parse; then the rest of the handler.
MainLoadFailed(reason, now) ==
  /\ page = "main"
  /\ \/ pc = "awaitFetch" /\ reason \in {"network error", "not ok"}
     \/ pc = "awaitJson" /\ reason = "parse error"
  /\ console' = Append(console, [message |-> "Error loading profiles:", error |-> reason])
  /\ UNCHANGED <<heap, profilesData, filteredProfiles>>
  /\ MainAfterLoad(showError(grid, LoadErrorMsg), PD, FP, now)

\* A load that shares the array instead of copying it
\* (filteredProfiles = profilesData).
MainLoadSucceeded_Alias(data, now) ==
  /\ page = "main"
  /\ pc = "awaitJson"
  /\ heap' = [r \in {"r1", "r2"} |-> data]
  /\ profilesData' = "r1"
  /\ filteredProfiles' = "r1"
  /\ UNCHANGED console
  /\ MainAfterLoad(grid, data, data, now)

\* loadProfiles' success: the parsed array, and a copy of it to filter.
MainLoadSucceeded(data, now) ==
  /\ page = "main"
  /\ pc = "awaitJson"
  /\ heap' = [r \in {"r1", "r2"} |-> data]
  /\ profilesData' = "r1"
  /\ filteredProfiles' = "r2"
  /\ UNCHANGED console
  /\ MainAfterLoad(grid, data, data, now)

\* A search that puts its result in the order of the selected sort key.
handleSearch_Sorted(value) ==
  /\ page = "main"
  /\ pc = "ready"
  /\ "input" \in listeners
  /\ value # searchValue
  /\ searchValue' = value
  /\ LET result == sort(searchResult(PD, value), sortValue)
     IN /\ heap' = [heap EXCEPT ![NewArray] = result]
        /\ filteredProfiles' = NewArray
        /\ resultsCount' = toStringNat(Len(result))
        /\ grid' = renderProfiles(grid, result)
  /\ lastEvent' = "search"
  /\ UNCHANGED <<page, pc, inflight, console, profilesData, listeners, sortValue,
                 location, clicked, counters, sortedOnce>>
  /\ UNCHANGED <<statsVars, timerVars>>

\* handleSearch, on the input event that leaves `value` in the search box.
handleSearch(value) ==
  /\ page = "main"
  /\ pc = "ready"
  /\ "input" \in listeners
  /\ value # searchValue
  /\ searchValue' = value
  /\ LET result == searchResult(PD, value)
     IN /\ heap' = [heap EXCEPT ![NewArray] = result]
        /\ filteredProfiles' = NewArray
        /\ resultsCount' = toStringNat(Len(result))
        /\ grid' = renderProfiles(grid, result)
  /\ lastEvent' = "search"
  /\ UNCHANGED <<page, pc, inflight, console, profilesData, listeners, sortValue,
                 location, clicked, counters, sortedOnce>>
  /\ UNCHANGED <<statsVars, timerVars>>

\* A sort that forgets to render again.
handleSort_NoRender(sortBy) ==
  /\ page = "main"
  /\ pc = "ready"
  /\ "change" \in listeners
  /\ sortBy # sortValue
  /\ sortValue' = sortBy
  /\ heap' = [heap EXCEPT ![filteredProfiles] = sort(FP, sortBy)]
  /\ lastEvent' = "sort"
  /\ sortedOnce' = TRUE
  /\ UNCHANGED <<page, pc, inflight, console, profilesData, filteredProfiles,
                 listeners, searchValue, resultsCount, grid, location, clicked,
                 counters>>
  /\ UNCHANGED <<statsVars, timerVars>>

\* handleSort, on the change event that selects `sortBy`.
handleSort(sortBy) ==
  /\ page = "main"
  /\ pc = "ready"
  /\ "change" \in listeners
  /\ sortBy # sortValue
  /\ sortValue' = sortBy
  /\ LET sorted == sort(FP, sortBy)
     IN /\ heap' = [heap EXCEPT ![filteredProfiles] = sorted]
        /\ grid' = renderProfiles(grid, sorted)
  /\ lastEvent' = "sort"
  /\ sortedOnce' = TRUE
  /\ UNCHANGED <<page, pc, inflight, console, profilesData, filteredProfiles,
                 listeners, searchValue, resultsCount, location, clicked, counters>>
  /\ UNCHANGED <<statsVars, timerVars>>

\* The click handler renderProfiles attached to the card at `index` (from 1):
\* it reads filteredProfiles at the time of the click and leaves the page.
clickCard(index) ==
  /\ page = "main"
  /\ pc = "ready"
  /\ index \in 1..Len(grid.cards)
  /\ index \in 1..Len(FP)
  /\ clicked' = grid.cards[index]
  /\ location' = profileHref(FP[index])
  /\ pc' = "navigated"
  /\ lastEvent' = "click"
  /\ UNCHANGED <<page, inflight, console, heap, profilesData, filteredProfiles,
                 listeners, searchValue, sortValue, resultsCount, grid, counters,
                 sortedOnce>>
  /\ UNCHANGED <<statsVars, timerVars>>

\* The sort control starts on any of its options.
\* response.json() resolves with one of the arrays the file can hold.
MainJsonOk ==
  /\ page = "main"
  /\ pc = "awaitJson"
  /\ \E data \in ProfileLists, now \in Nows : MainLoadSucceeded(data, now)

InitMain == page = "main" /\ sortValue \in SortKeys /\ InitCommon

NextMain ==
  \/ MainDOMContentLoaded
  \/ MainFetchOk
  \/ \E reason \in {"network error", "not ok", "parse error"}, now \in Nows :
       MainLoadFailed(reason, now)
  \/ MainJsonOk
  \/ \E value \in Queries : handleSearch(value)
  \/ \E sortBy \in SortKeys : handleSort(sortBy)
  \/ \E index \in 1..MaxProfiles : clickCard(index)

\* The main page.
SpecMain == InitMain /\ [][NextMain]_vars

\* -------------------------------------------------- statistics page: pure

\* One .top-profile-item of a top list.
topProfileItem(profile, index, count) ==
  [rank     |-> index + 1,
   name     |-> escapeHtml(OrElse(profile.display_name, profile.username)),
   username |-> <<"@">> \o escapeHtml(profile.username),
   stat     |-> formatNumber(OrZero(count)),
   href     |-> profileHref(profile)]

\* The first list of renderTopProfiles: a sorted copy, cut to ten.
topPostsOf(data) ==
  LET top == slice(sort(data, "topPosts"), 0, TopN)
  IN [i \in 1..Len(top) |-> topProfileItem(top[i], i - 1, top[i].statuses_count)]

\* The second list of renderTopProfiles.
topFollowersOf(data) ==
  LET top == slice(sort(data, "topFollowers"), 0, TopN)
  IN [i \in 1..Len(top) |-> topProfileItem(top[i], i - 1, top[i].followers_count)]

\* Bodies /data/server-stats.json can carry: null, {}, or an object with
\* some of the fields.
ServerStatsBodies ==
  { [kind |-> "null", version |-> <<>>, user_count |-> <<>>, status_count |-> <<>>,
     domain_count |-> <<>>, title |-> <<>>, short_description |-> <<>>],
    [kind |-> "empty", version |-> <<>>, user_count |-> <<>>, status_count |-> <<>>,
     domain_count |-> <<>>, title |-> <<>>, short_description |-> <<>>],
    [kind |-> "object", version |-> <<>>, user_count |-> <<>>, status_count |-> <<>>,
     domain_count |-> <<>>, title |-> <<>>, short_description |-> <<"d">>],
    [kind |-> "object", version |-> <<"4",".","2">>, user_count |-> <<1200>>,
     status_count |-> <<34567>>, domain_count |-> <<8>>, title |-> <<"R","o">>,
     short_description |-> <<>>],
    [kind |-> "object", version |-> <<"4",".","2">>, user_count |-> <<1200>>,
     status_count |-> <<34567>>, domain_count |-> <<8>>, title |-> <<"R","<","o">>,
     short_description |-> <<"d","&","d">>] }

ServerStatsPlaceholder == [message |-> ServerStatsUnavailableMsg, stats |-> <<>>]

\* renderServerStats on a body that is an object.
renderServerStats(stats) ==
  IF stats.kind = "empty"
  THEN ServerStatsPlaceholder
  ELSE [message |-> "",
        stats |->
          <<[version     |-> escapeHtml(OrElse(stats.version, <<"N/A">>)),
             users       |-> formatNumber(OrZero(stats.user_count)),
             statuses    |-> formatNumber(OrZero(stats.status_count)),
             domains     |-> formatNumber(OrZero(stats.domain_count)),
             title       |-> escapeHtml(stats.title),
             description |-> IF stats.title # <<>>
                             THEN escapeHtml(stats.short_description)
                             ELSE <<>>]>>]

\* ----------------------------------------------- statistics page: actions

\* The handler as it would start were loadProfiles not awaited: both requests
\* leave together.
StatsDOMContentLoaded_NoAwait ==
  /\ page = "stats"
  /\ pc = "start"
  /\ pc' = "awaitFetch"
  /\ inflight' = {ProfilesUrl, ServerStatsUrl}
  /\ UNCHANGED <<page, console, heap, profilesData, filteredProfiles, counters,
                 lastEvent, sortedOnce>>
  /\ UNCHANGED <<mainVars, statsVars, timerVars>>

\* The DOMContentLoaded handler up to its first await.
StatsDOMContentLoaded ==
  /\ page = "stats"
  /\ pc = "start"
  /\ pc' = "awaitFetch"
  /\ inflight' = {ProfilesUrl}
  /\ UNCHANGED <<page, console, heap, profilesData, filteredProfiles, counters,
                 lastEvent, sortedOnce>>
  /\ UNCHANGED <<mainVars, statsVars, timerVars>>

StatsFetchOk ==
  /\ page = "stats"
  /\ pc = "awaitFetch"
  /\ pc' = "awaitJson"
  /\ UNCHANGED <<page, inflight, console, heap, profilesData, filteredProfiles,
                 counters, lastEvent, sortedOnce>>
  /\ UNCHANGED <<mainVars, statsVars, timerVars>>

\* renderTopProfiles: both lists, each from its own sorted copy.
renderTopProfiles(data) ==
  /\ topPosts' = topPostsOf(data)
  /\ topFollowers' = topFollowersOf(data)

\* What the handler does after `await loadProfiles()`: updateOverviewStats,
\* renderTopProfiles, and loadServerStats up to its fetch.
StatsAfterLoad(data, now) ==
  /\ counters' = updateStats(data, now)
  /\ renderTopProfiles(data)
  /\ inflight' = {ServerStatsUrl}
  /\ pc' = "awaitStatsFetch"
  /\ lastEvent' = "load"
  /\ UNCHANGED <<page, filteredProfiles, serverStats, sortedOnce>>
  /\ UNCHANGED <<mainVars, timerVars>>

\* loadProfiles' catch on the statistics page: the error is logged.
StatsLoadFailed(reason, now) ==
  /\ page = "stats"
  /\ \/ pc = "awaitFetch" /\ reason \in {"network error", "not ok"}
     \/ pc = "awaitJson" /\ reason = "parse error"
  /\ console' = Append(console, [message |-> "Error loading profiles:", error |-> reason])
  /\ UNCHANGED <<heap, profilesData>>
  /\ StatsAfterLoad(PD, now)

StatsLoadSucceeded(data, now) ==
  /\ page = "stats"
  /\ pc = "awaitJson"
  /\ heap' = [heap EXCEPT !["r1"] = data]
  /\ profilesData' = "r1"
  /\ UNCHANGED console
  /\ StatsAfterLoad(data, now)

\* The server-statistics fetch resolves with an ok response.
ServerStatsFetchOk ==
  /\ page = "stats"
  /\ pc = "awaitStatsFetch"
  /\ pc' = "awaitStatsJson"
  /\ UNCHANGED <<page, inflight, console, heap, profilesData, filteredProfiles,
                 counters, lastEvent, sortedOnce>>
  /\ UNCHANGED <<mainVars, statsVars, timerVars>>

\* loadServerStats' catch: logged, and the placeholder shown.
ServerStatsFailed(reason) ==
  /\ console' = Append(console, [message |-> "Error loading server stats:", error |-> reason])
  /\ serverStats' = ServerStatsPlaceholder
  /\ inflight' = {}
  /\ pc' = "done"
  /\ lastEvent' = "serverStats"
  /\ UNCHANGED <<page, heap, profilesData, filteredProfiles, counters, topPosts,
                 topFollowers, sortedOnce>>
  /\ UNCHANGED <<mainVars, timerVars>>

\* The server-statistics fetch rejects, answers not ok, or its body does not
\* parse.
loadServerStatsFailed(reason) ==
  /\ page = "stats"
  /\ \/ pc = "awaitStatsFetch" /\ reason \in {"network error", "not ok"}
     \/ pc = "awaitStatsJson" /\ reason = "parse error"
  /\ ServerStatsFailed(reason)

\* The body parsed: renderServerStats; a null body makes it throw on
\* stats.version, into loadServerStats' catch.
loadServerStatsSucceeded(stats) ==
  /\ page = "stats"
  /\ pc = "awaitStatsJson"
  /\ IF stats.kind = "null"
     THEN ServerStatsFailed("type error")
     ELSE /\ serverStats' = renderServerStats(stats)
          /\ inflight' = {}
          /\ pc' = "done"
          /\ lastEvent' = "serverStats"
          /\ UNCHANGED <<page, console, heap, profilesData, filteredProfiles,
                         counters, topPosts, topFollowers, sortedOnce>>
          /\ UNCHANGED <<mainVars, timerVars>>

\* response.json() resolves with one of the arrays the file can hold.
StatsJsonOk ==
  /\ page = "stats"
  /\ pc = "awaitJson"
  /\ \E data \in StatsProfileLists, now \in Nows : StatsLoadSucceeded(data, now)

InitStats == page = "stats" /\ sortValue = "name" /\ InitCommon

NextStats ==
  \/ StatsDOMContentLoaded
  \/ StatsFetchOk
  \/ \E reason \in {"network error", "not ok", "parse error"}, now \in Nows :
       StatsLoadFailed(reason, now)
  \/ StatsJsonOk
  \/ ServerStatsFetchOk
  \/ \E reason \in {"network error", "not ok", "parse error"} :
       loadServerStatsFailed(reason)
  \/ \E stats \in ServerStatsBodies : loadServerStatsSucceeded(stats)

\* The statistics page.
SpecStats == InitStats /\ [][NextStats]_vars

\* ------------------------------------------------------ counter animation

\* The timer callbacks of animateValue touch only their own closure and
\* their own element, so one counter is followed on its own, started with an
\* end that updateStats or updateOverviewStats computes.  `current` is kept
\* as its exact numerator over `duration` (increment = range * 16 / duration).
\* The code adds doubles: when an increment that is not a binary fraction
\* (end not a multiple of 125) sums to a whole number q, the rounded sum lies
\* just below or just above q, and Math.floor shows q - 1 or q.
\* `fired` is the number of callback runs so far, modulo 2.
animateValue(id, start, end, duration) ==
  /\ page = "counter"
  /\ pc = "start"
  /\ timer' = [id        |-> id,
               end       |-> end,
               duration  |-> duration,
               increment |-> (end - start) * TickMs,
               current   |-> start * duration,
               running   |-> TRUE,
               fired     |-> 0]
  /\ pc' = "animating"
  /\ lastEvent' = "animateValue"
  /\ UNCHANGED <<page, inflight, console, heap, profilesData, filteredProfiles,
                 counters, counterText, sortedOnce>>
  /\ UNCHANGED <<mainVars, statsVars>>

\* Math.floor of the sum the callback holds.
floorOf(t, current) ==
  LET q == current \div t.duration
  IN IF current % t.duration = 0 /\ current # t.end * t.duration
        /\ t.end % 125 # 0 /\ q >= 1
     THEN {q - 1, q}
     ELSE {q}

\* One run of the setInterval callback.
timerTick ==
  /\ page = "counter"
  /\ timer.running
  /\ LET stepped == timer.current + timer.increment
         reached == \/ timer.increment > 0 /\ stepped >= timer.end * timer.duration
                    \/ timer.increment < 0 /\ stepped <= timer.end * timer.duration
         current == IF reached THEN timer.end * timer.duration ELSE stepped
     IN /\ timer' = [timer EXCEPT !.current = current,
                                  !.running = ~reached,
                                  !.fired   = 1 - timer.fired]
        /\ \E shown \in floorOf(timer, current) :
             counterText' = formatNumber(shown)
  /\ lastEvent' = "tick"
  /\ UNCHANGED <<page, pc, inflight, console, heap, profilesData,
                 filteredProfiles, counters, sortedOnce>>
  /\ UNCHANGED <<mainVars, statsVars>>

\* The ends the pages start counters with.
CounterEnds ==
  {c.end : c \in UNION {updateStats(data, now) :
                          data \in ProfileLists \cup StatsProfileLists, now \in Nows}}

\* One of the four animateValue calls of updateStats.
CounterStarted ==
  /\ page = "counter"
  /\ pc = "start"
  /\ \E id \in {"totalProfiles", "totalPosts", "totalFollowers", "activeProfiles"},
        end \in CounterEnds :
       animateValue(id, 0, end, Duration)

InitCounter == page = "counter" /\ sortValue = "name" /\ InitCommon

NextCounter ==
  \/ CounterStarted
  \/ timerTick

\* One counter animation, with the interval timer firing as long as it is set.
SpecCounter == InitCounter /\ [][NextCounter]_vars /\ WF_vars(timerTick)

\* ---------------------------------------------------------- both page views

Init == InitMain \/ InitStats

Next == NextMain \/ NextStats

Spec == Init /\ [][Next]_vars

\* ------------------------------------------------------------- properties

Range(s) == {s[i] : i \in 1..Len(s)}

Occurrences(s, x) == Cardinality({i \in 1..Len(s) : s[i] = x})

IsPermutation(s, t) ==
  /\ Len(s) = Len(t)
  /\ \A x \in Range(s) \cup Range(t) : Occurrences(s, x) = Occurrences(t, x)

\* The value a sort key orders by, a missing value counting as 0.
KeyOf(profile, key) ==
  CASE key = "posts"     -> OrZero(profile.statuses_count)
    [] key = "followers" -> OrZero(profile.followers_count)
    [] key = "recent"    -> OrZero(profile.created_at)

NonIncreasing(nums) == \A i \in 1..(Len(nums) - 1) : nums[i] >= nums[i + 1]

KeysOf(profiles, key) == [i \in 1..Len(profiles) |-> KeyOf(profiles[i], key)]

\* The number a formatted counter or stat shows.
RECURSIVE ParseNumberFrom(_, _)
ParseNumberFrom(text, acc) ==
  IF text = <<>> THEN acc
  ELSE IF Head(text) = "," THEN ParseNumberFrom(Tail(text), acc)
  ELSE ParseNumberFrom(Tail(text),
         10 * acc + (CHOOSE d \in 0..9 : DigitChars[d + 1] = Head(text)))

ParseNumber(text) == ParseNumberFrom(text, 0)

\* The query handleSearch works with.
CurrentQuery == trim(toLowerCase(searchValue))

ProfilesLoadFailed ==
  \E i \in 1..Len(console) : console[i].message = "Error loading profiles:"

ServerStatsLoadFailed ==
  \E i \in 1..Len(console) : console[i].message = "Error loading server stats:"

\* C1: on the main page, once the DOMContentLoaded handler has run to its
\* end after /data/profiles.json answered with a non-ok status, the grid
\* shows the error string of showError and holds no profile card.
C1_FailedLoadShowsError ==
  (/\ page = "main"
   /\ pc = "ready"
   /\ lastEvent = "load"
   /\ \E i \in 1..Len(console) : console[i].error = "not ok")
  => (grid.message = LoadErrorMsg /\ grid.cards = <<>>)

\* C2: on the statistics page, once both loads have settled, a failed
\* profiles fetch has left a message in the page, and a failed
\* server-statistics fetch has left its placeholder message.
C2_FailedFetchesLeaveMessage ==
  (page = "stats" /\ pc = "done")
  => /\ ProfilesLoadFailed => serverStats.message # ""
     /\ ServerStatsLoadFailed => serverStats.message = ServerStatsUnavailableMsg

\* Whether the query occurs in the lower-cased display name, username, or
\* biography with its tags stripped.
MatchesStripped(profile, q) ==
  \/ includes(toLowerCase(profile.display_name), q)
  \/ includes(toLowerCase(profile.username), q)
  \/ includes(toLowerCase(stripHtml(profile.note)), q)

\* C3: after a search with a non-empty query q, filteredProfiles is exactly
\* the profiles of profilesData in which q occurs in the lower-cased display
\* name, username, or biography with its HTML tags stripped.
C3_SearchMatchesStrippedBiography ==
  (page = "main" /\ lastEvent = "search" /\ CurrentQuery # <<>>)
  => FP = SelectSeq(PD, LAMBDA p : MatchesStripped(p, CurrentQuery))

\* C4: after a search event, whatever sorts and searches came before, an
\* empty or blank query leaves filteredProfiles equal to profilesData, same
\* elements in the same order, and a non-empty query leaves the surviving
\* profiles in the order they have in profilesData.
C4_SearchKeepsSourceOrder ==
  (page = "main" /\ lastEvent = "search")
  => /\ CurrentQuery = <<>> => FP = PD
     /\ FP = SelectSeq(PD, LAMBDA p : p \in Range(FP))

\* A blank query typed after a sort has reordered a narrowed list.
C4_Witness ==
  /\ page = "main"
  /\ lastEvent = "search"
  /\ sortedOnce
  /\ searchValue = <<" ">>
  /\ Len(PD) = MaxProfiles
  /\ sort(PD, sortValue) # PD
  /\ FP = PD

\* C5: a handleSort step for posts, followers or recent leaves
\* filteredProfiles a permutation of what it held, with the key's value
\* (missing counting as 0) non-increasing from first to last.
C5_SortOrdersByKey ==
  [][(/\ lastEvent' = "sort"
      /\ sortValue' # sortValue
      /\ sortValue' \in {"posts", "followers", "recent"})
     => /\ IsPermutation(heap'[filteredProfiles'], FP)
        /\ NonIncreasing(KeysOf(heap'[filteredProfiles'], sortValue'))]_vars

\* Sorted by posts: 150 before 5, and the profile without a count last.
C5_Witness ==
  /\ page = "main"
  /\ lastEvent = "sort"
  /\ sortValue = "posts"
  /\ PD = <<Pia, Bob, Ana>>
  /\ FP = <<Ana, Bob, Pia>>

\* C6: a counter animation that was started comes to show exactly its
\* target with its interval cleared, for every target, 0 included.
C6_CounterReachesTargetAndStops ==
  (page = "counter" /\ pc = "animating")
    ~> (~timer.running /\ counterText = formatNumber(timer.end))

TopListOk(list, key) ==
  /\ Len(list) = (IF Len(PD) < TopN THEN Len(PD) ELSE TopN)
  /\ NonIncreasing([i \in 1..Len(list) |-> ParseNumber(list[i].stat)])
  /\ \A i \in 1..Len(list) : list[i].rank = i
  /\ \A p \in Range(PD) :
       LET listed == Cardinality({i \in 1..Len(list) : list[i].href = profileHref(p)})
       IN /\ listed <= Occurrences(PD, p)
          /\ listed < Occurrences(PD, p)
             => \A i \in 1..Len(list) : ParseNumber(list[i].stat) >= KeyOf(p, key)

\* C9: each top list of the statistics page has min(10, n) entries, in
\* non-increasing order of its count, the k-th entry ranked k, and no
\* profile left out of a list has a greater count than an entry of it.
C9_TopListsAreTheTopTen ==
  (page = "stats" /\ lastEvent # "none")
  => (TopListOk(topPosts, "posts") /\ TopListOk(topFollowers, "followers"))

\* Eleven profiles, the first of the source the one that is left out.
C9_Witness ==
  /\ page = "stats"
  /\ lastEvent = "load"
  /\ Len(PD) > TopN
  /\ PD[1] = Pia
  /\ \A i \in 2..Len(PD) : PD[i] = Bob
  /\ Len(topPosts) = TopN
  /\ \A i \in 1..Len(topPosts) : topPosts[i].href = profileHref(Bob)

C11_FetchesAreSequential ==
  page = "stats"
  => /\ Cardinality(inflight) <= 1
     /\ ServerStatsUrl \in inflight
        => (lastEvent # "none" /\ pc \in {"awaitStatsFetch", "awaitStatsJson"})
     /\ pc \in {"start", "awaitFetch", "awaitJson"} => ServerStatsUrl \notin inflight
     /\ ProfilesLoadFailed
        => /\ pc \in {"awaitStatsFetch", "awaitStatsJson", "done"}
           /\ pc # "done" => inflight = {ServerStatsUrl}

\* The profiles fetch was rejected and the server-statistics request is out.
C11_Witness ==
  /\ page = "stats"
  /\ pc = "awaitStatsFetch"
  /\ \E i \in 1..Len(console) :
        console[i] = [message |-> "Error loading profiles:", error |-> "network error"]
  /\ inflight = {ServerStatsUrl}

\* The profiles of profilesData the current query keeps, in source order.
MatchingProfiles ==
  IF CurrentQuery = <<>>
  THEN PD
  ELSE SelectSeq(PD, LAMBDA p : matchesQuery(p, CurrentQuery))

\* Whether a list runs in the order of a sort key: names ascending, counts
\* and creation dates descending, missing values counting as 0.
OrderedByKey(profiles, key) ==
  \A i \in 1..(Len(profiles) - 1) :
    IF key = "name"
    THEN localeCompare(OrElse(profiles[i].display_name, profiles[i].username),
                       OrElse(profiles[i + 1].display_name, profiles[i + 1].username)) <= 0
    ELSE KeyOf(profiles[i], key) >= KeyOf(profiles[i + 1], key)

\* C12 as stated: once a sort has been made, after every later search or
\* sort event the displayed list holds the profiles matching the current
\* query, ordered by the key selected in the sort control.
C12_SearchKeepsSortOrder ==
  (page = "main" /\ pc = "ready" /\ sortedOnce /\ lastEvent \in {"search", "sort"})
  => /\ IsPermutation(FP, MatchingProfiles)
     /\ \A i \in 1..Len(FP) : grid.cards[i] = createProfileCard(FP[i])
     /\ OrderedByKey(FP, sortValue)

\* C12, amended: after any sequence of search and sort events the displayed
\* list holds exactly the profiles matching the current query; right after a
\* sort event it is ordered by the selected key, and right after a search
\* event it is in source order, whatever key the sort control shows.
C12_SortOrdersSearchRestoresSourceOrder ==
  (page = "main" /\ pc = "ready" /\ lastEvent \in {"search", "sort"})
  => /\ IsPermutation(FP, MatchingProfiles)
     /\ Len(grid.cards) = Len(FP)
     /\ \A i \in 1..Len(FP) : grid.cards[i] = createProfileCard(FP[i])
     /\ lastEvent = "sort" => OrderedByKey(FP, sortValue)
     /\ lastEvent = "search" => FP = MatchingProfiles

\* A search after a sort by posts: the two matches are back in source order,
\* the one without a count ahead of the one with 150.
C12_Witness ==
  /\ page = "main"
  /\ pc = "ready"
  /\ lastEvent = "search"
  /\ sortedOnce
  /\ sortValue = "posts"
  /\ CurrentQuery = <<"p">>
  /\ FP = <<Pia, Ana>>
  /\ ~OrderedByKey(FP, sortValue)

====
